---- MODULE Spec2Model ----
(***************************************************************************)
(* Model of the ai_chatbot_website backend:                                *)
(*   ChatController, ChatService   (chat.controller.ts, chat.service.ts)   *)
(*   AiProviderService.streamChat  (ai-provider.service.ts)                *)
(*   AuthController, LocalStrategy, AuthService, UsersService              *)
(* over the users/conversations/messages tables that TypeORM synchronises  *)
(* from the entity classes (app.module.ts: synchronize: true).             *)
(*                                                                         *)
(* Text is a sequence of characters, so concatenation is \o.               *)
(* Timestamps are drawn from one clock that advances with every write.     *)
(***************************************************************************)
EXTENDS Integers, Sequences, FiniteSets, TLC

\* ---------------------------------------------------------------- bounds
MaxTurns == 2
MaxConvs == 2
MaxChunks == 2
MaxHist == 3
MaxUsers == 2
MaxTime == 2

Turns == 1..MaxTurns
ConvIds == 1..MaxConvs
UserIds == {"u1", "u2"}
\* a well-formed uuid that names no row
MissingId == 0
\* the DTO's conversationId is optional
NoConversationId == -1

\* message texts a client sends
UserTexts == {<<"q">>}
\* the text of a request that arrives while another is in flight
LaterTexts == {<<"k">>}
\* texts the k-th chunk of a vendor stream can carry (chunk.text()): nothing,
\* or a text that differs from chunk to chunk
Alphabet == <<"a", "b", "c", "d", "e", "f">>
ChunkTexts(k) == {<<>>, <<Alphabet[k], "x">>}

\* ------------------------------------------------------------ text helpers
RECURSIVE Concat(_)
Concat(ss) == IF ss = <<>> THEN <<>> ELSE Head(ss) \o Concat(Tail(ss))

\* Array.prototype.join
RECURSIVE Join(_, _)
Join(ss, sep) ==
  IF ss = <<>> THEN <<>>
  ELSE IF Len(ss) = 1 THEN Head(ss)
  ELSE Head(ss) \o sep \o Join(Tail(ss), sep)

IsPrefix(p, s) == Len(p) <= Len(s) /\ SubSeq(s, 1, Len(p)) = p

\* number of positions at which p occurs in s
Occurrences(p, s) ==
  Cardinality({i \in 1..(Len(s) - Len(p) + 1) : SubSeq(s, i, i + Len(p) - 1) = p})

RECURSIVE SelectIdx(_, _, _)
\* indices i >= k of s whose role is not roleToSkip, ascending
SelectIdx(s, k, roleToSkip) ==
  IF k > Len(s) THEN <<>>
  ELSE IF s[k].role # roleToSkip THEN <<k>> \o SelectIdx(s, k + 1, roleToSkip)
  ELSE SelectIdx(s, k + 1, roleToSkip)

\* ------------------------------------------------------------------ errors
NotFoundMessage == "Conversation not found"
ProviderMessage == "Gemini API failed"
QueryFailedMessage == "query failed"

VARIABLES
  convs,         \* conversations table: id -> row
  msgs,          \* messages table, in insertion order
  now,           \* clock
  nextConv,      \* next fresh conversation id
  pc,            \* per stream request: position in streamMessage/streamResponse
  req,           \* per stream request: conversationId, message, userId
  conversation,  \* per stream request: the entity findOne returned
  history,       \* per stream request: rows getConversationHistory returned
  aiMessages,    \* per stream request: the list handed to streamChat
  vendorReq,     \* per stream request: history and prompt given to the vendor
  fullResponse,  \* per stream request: accumulator
  yielded,       \* per stream request: fragments streamResponse yielded
  chunksLeft,    \* per stream request: chunks the vendor stream may still deliver
  clientClosed,  \* per stream request: flag set by req.on('close')
  frames,        \* per stream request: frames written with res.write
  ended,         \* per stream request: res.end() was called
  outcome,       \* per stream request: how streamResponse finished
  trace,         \* per stream request: store and vendor operations, in order
  adIn,          \* adapter translation: input messages
  adOut,         \* adapter translation: vendor-facing result
  lookup,        \* per stream request: what its findOne met in the store
  call,          \* the GET or DELETE /chat/conversation/:id request
  closedMidStream \* per stream request: the close event came while the vendor stream was open

VARIABLES
  users,         \* users table: id -> row
  nextUser,      \* next fresh user id
  wall,          \* wall clock, in days
  reg,           \* per register call: position in UsersService.register
  act,           \* the POST /auth/verify-email call
  signIn         \* the POST /auth/login call

VARIABLES
  selectedConversationId,   \* chat page: useState, the conversation shown
  chatMessages,             \* chat page: useState messages, the messages shown
  pendingAssistantMessage,  \* chat page: useState, the fragments of the reply being streamed
  isStreaming,              \* chat page: useState
  isLoadingMessages,        \* chat page: useState
  streamController,         \* chat page: useRef, the call whose AbortController is current
  stream,                   \* chat page: per handleSendMessage call, its streamAssistantResponse
  loads,                    \* chat page: fetchConversationById calls in flight outside a stream
  written,                  \* stream reader: the frames the server wrote to the response
  body,                     \* stream reader: the bytes of response.body not yet read
  decoder,                  \* stream reader: the bytes the TextDecoder holds back
  buffer                    \* stream reader: let buffer

chatVars == <<convs, msgs, now, nextConv, pc, req, conversation, history,
              aiMessages, vendorReq, fullResponse, yielded, chunksLeft, clientClosed, frames, ended,
              outcome, trace, lookup, call, closedMidStream>>
adVars == <<adIn, adOut>>
authVars == <<users, nextUser, wall, reg, act, signIn>>
uiVars == <<selectedConversationId, chatMessages, pendingAssistantMessage, isStreaming,
            isLoadingMessages, streamController, stream, loads, written, body, decoder, buffer>>
vars == <<chatVars, adVars, authVars, uiVars>>

\* ===================================================================
\* AiProviderService.streamChat: translation to the vendor's format
\* ===================================================================
NewLine == <<"\n">>

\* a translation that forgets the vendor's name for the assistant role
GeminiRoleKeepsAssistant(role) ==
  IF role = "system" THEN "user" ELSE role

GeminiRole(role) ==
  IF role = "assistant" THEN "model"
  ELSE IF role = "system" THEN "user"
  ELSE role

\* messages.map(...): one entry per message; src remembers the input position
geminiMessages(messages) ==
  [i \in 1..Len(messages) |->
     [role |-> GeminiRole(messages[i].role), text |-> messages[i].content, src |-> i]]

systemPrompt(messages) ==
  LET IsSystem(m) == m.role = "system"
      systemMessages == SelectSeq(messages, IsSystem)
  IN IF Len(systemMessages) > 0
     THEN Join([i \in 1..Len(systemMessages) |-> systemMessages[i].content], NewLine)
            \o NewLine \o NewLine
     ELSE <<>>

filteredMessages(messages) ==
  LET NotSystem(m) == m.role # "system"
      kept == SelectSeq(geminiMessages(messages), NotSystem)
      sp == systemPrompt(messages)
  IN [idx \in 1..Len(kept) |->
        IF idx = 1 /\ kept[idx].role = "user" /\ sp # <<>>
        THEN [kept[idx] EXCEPT !.text = sp \o kept[idx].text]
        ELSE kept[idx]]

\* filteredMessages.slice(0, -1)
chatHistory(messages) ==
  LET f == filteredMessages(messages)
  IN IF Len(f) = 0 THEN <<>> ELSE SubSeq(f, 1, Len(f) - 1)

\* lastMessage?.parts[0]?.text || ''
prompt(messages) ==
  LET f == filteredMessages(messages)
  IN IF Len(f) = 0 THEN <<>> ELSE f[Len(f)].text

\* ===================================================================
\* Store
\* ===================================================================
NoRow == [exists |-> FALSE, owner |-> "none", createdAt |-> 0, updatedAt |-> 0]
NullConversation == [found |-> FALSE, id |-> MissingId, createdAt |-> 0, updatedAt |-> 0]

RowExists(id) == id \in ConvIds /\ convs[id].exists

\* a lookup by id alone, without the owner in the where clause
findOneConversationAnyOwner(id, userId) ==
  IF RowExists(id)
  THEN [found |-> TRUE, id |-> id, createdAt |-> convs[id].createdAt,
        updatedAt |-> convs[id].updatedAt]
  ELSE NullConversation

\* conversationRepo.findOne({ where: { id, user: { id: userId } } })
findOneConversation(id, userId) ==
  IF RowExists(id) /\ convs[id].owner = userId
  THEN [found |-> TRUE, id |-> id, createdAt |-> convs[id].createdAt,
        updatedAt |-> convs[id].updatedAt]
  ELSE NullConversation

\* what a lookup of id by userId meets in the store
LookupKind(id, userId) ==
  IF ~RowExists(id) THEN "missing"
  ELSE IF convs[id].owner = userId THEN "owned" ELSE "foreign"

\* the error a caller gets from an owner-scoped lookup ("" is none)
LookupError(id, userId) ==
  IF findOneConversation(id, userId).found THEN "" ELSE NotFoundMessage

MessagesOf(id) == SelectSeq(msgs, LAMBDA m : m.conv = id)

RECURSIVE InsertByCreatedAt(_, _)
InsertByCreatedAt(sorted, m) ==
  IF sorted = <<>> THEN <<m>>
  ELSE IF m.createdAt < Head(sorted).createdAt THEN <<m>> \o sorted
  ELSE <<Head(sorted)>> \o InsertByCreatedAt(Tail(sorted), m)

RECURSIVE OrderByCreatedAtAsc(_)
OrderByCreatedAtAsc(rows) ==
  IF rows = <<>> THEN <<>>
  ELSE InsertByCreatedAt(OrderByCreatedAtAsc(Tail(rows)), Head(rows))

\* a history query ordered newest first
getConversationHistoryDesc(id) ==
  LET asc == OrderByCreatedAtAsc(MessagesOf(id))
  IN [i \in 1..Len(asc) |-> asc[Len(asc) + 1 - i]]

\* messageRepo.find({ where: { conversation: { id } }, order: { createdAt: 'ASC' } })
getConversationHistory(id) == OrderByCreatedAtAsc(MessagesOf(id))

\* the row messageRepo.save inserts
NewMessage(id, role, content, t) ==
  [conv |-> id, role |-> role, content |-> content, createdAt |-> now, turn |-> t]

\* history.map((msg) => ({ role: msg.role, content: msg.content }))
FormatMessages(rows) ==
  [i \in 1..Len(rows) |-> [role |-> rows[i].role, content |-> rows[i].content]]

ContentFrame(chunk) == [type |-> "content", text |-> chunk, error |-> ""]
DoneFrame == [type |-> "done", text |-> <<>>, error |-> ""]
ErrorFrame(message) == [type |-> "error", text |-> <<>>, error |-> message]

NoVendorRequest == [sent |-> FALSE, history |-> <<>>, prompt |-> <<>>]
NoRequest == [conversationId |-> MissingId, message |-> <<>>, userId |-> "none"]
NoCall == [op |-> "none", pc |-> "idle", conversationId |-> MissingId,
           userId |-> "none", kind |-> "none", error |-> "", rows |-> <<>>]

\* the request-local state before any request has arrived
NoRequests ==
  /\ pc = [t \in Turns |-> "idle"]
  /\ req = [t \in Turns |-> NoRequest]
  /\ conversation = [t \in Turns |-> NullConversation]
  /\ history = [t \in Turns |-> <<>>]
  /\ aiMessages = [t \in Turns |-> <<>>]
  /\ vendorReq = [t \in Turns |-> NoVendorRequest]
  /\ fullResponse = [t \in Turns |-> <<>>]
  /\ yielded = [t \in Turns |-> <<>>]
  /\ chunksLeft = [t \in Turns |-> 0]
  /\ clientClosed = [t \in Turns |-> FALSE]
  /\ frames = [t \in Turns |-> <<>>]
  /\ ended = [t \in Turns |-> FALSE]
  /\ outcome = [t \in Turns |-> "none"]
  /\ trace = [t \in Turns |-> <<>>]
  /\ lookup = [t \in Turns |-> "none"]
  /\ call = NoCall
  /\ closedMidStream = [t \in Turns |-> FALSE]

\* the store after synchronize: empty tables
EmptyStore ==
  /\ convs = [c \in ConvIds |-> NoRow]
  /\ msgs = <<>>
  /\ now = 1
  /\ nextConv = 1

\* the store after userId created the first conversation and completed one
\* turn on it (request 0): createConversation at 1, the user message at 2,
\* the assistant message at 3, the conversation touched at 4
StoreAfterOneTurn(userId) ==
  /\ convs = [c \in ConvIds |->
                IF c = 1
                THEN [exists |-> TRUE, owner |-> userId, createdAt |-> 1, updatedAt |-> 4]
                ELSE NoRow]
  /\ msgs = <<[conv |-> 1, role |-> "user", content |-> <<"p">>, createdAt |-> 2, turn |-> 0],
              [conv |-> 1, role |-> "assistant", content |-> <<"r">>, createdAt |-> 3, turn |-> 0]>>
  /\ now = 5
  /\ nextConv = 2

ChatInit == EmptyStore /\ NoRequests

NoTranslation == [called |-> FALSE, filtered |-> <<>>, history |-> <<>>, prompt |-> <<>>]

AdIdle == adIn = <<>> /\ adOut = NoTranslation

\* ===================================================================
\* Users table and the /auth requests
\* ===================================================================
UIds == 1..MaxUsers
\* the register calls: two, so that they can race for one email
RegCalls == {1, 2}
\* a well-formed uuid that names no user
MissingUser == 0
Emails == {"e1", "e2"}
Passwords == {"p1", "p2"}
\* String(Math.floor(Math.random() * 1000000)).padStart(6, '0')
Codes == {"000001", "000002"}
\* dayjs().add(1, 'day'), the wall clock counting days
CodeLifetime == 1

\* bcrypt.hash(plainPassword, SALT_ROUNDS)
hashPasswordHelper(plainPassword) == <<"bcrypt", plainPassword>>
\* bcrypt.compare(plainPassword, hashPassword)
comparePasswordHelper(plainPassword, hashPassword) ==
  hashPassword = <<"bcrypt", plainPassword>>

NoUser == [exists |-> FALSE, email |-> "", password |-> <<>>, is_active |-> FALSE,
           code_id |-> "", code_expire |-> 0]
NoRegister == [pc |-> "idle", email |-> "", password |-> "", existed |-> FALSE,
               status |-> 0, message |-> "", id |-> MissingUser]
NoActivate == [pc |-> "idle", user_id |-> MissingUser, code |-> "",
               wasActive |-> FALSE, status |-> 0, message |-> ""]
NoToken == [sub |-> MissingUser, username |-> ""]
NoSignIn == [called |-> FALSE, email |-> "", password |-> "", known |-> FALSE,
             matches |-> FALSE, active |-> FALSE, status |-> 0, code |-> "",
             access_token |-> NoToken, user |-> MissingUser]

\* the users table after synchronize and no /auth request yet
AuthIdle ==
  /\ users = [u \in UIds |-> NoUser]
  /\ nextUser = 1
  /\ wall = 0
  /\ reg = [r \in RegCalls |-> NoRegister]
  /\ act = NoActivate
  /\ signIn = NoSignIn

\* ===================================================================
\* The chat page (app/chat/page.tsx)
\* ===================================================================
MaxSends == 2
Sends == 1..MaxSends
\* selectedConversationId === null, streamController.current === null
NoSelection == 0
NoController == 0
\* the text of a content frame the page receives
FrameText == <<"a">>

NoStream == [pc |-> "idle", conversationId |-> NoSelection, aborted |-> FALSE,
             sawError |-> FALSE, reloaded |-> FALSE]

\* a message of the list GET /chat/conversation/:id returned
PersistedMessage(conversationId) == [conversationId |-> conversationId, temp |-> FALSE]
\* const tempMessage = { id: `temp-${Date.now()}`, role: "user", ... }
tempMessage(conversationId) == [conversationId |-> conversationId, temp |-> TRUE]

\* the page before it is mounted, and the stream reader before a response
UiIdle ==
  /\ selectedConversationId = NoSelection
  /\ chatMessages = <<>>
  /\ pendingAssistantMessage = <<>>
  /\ isStreaming = FALSE
  /\ isLoadingMessages = FALSE
  /\ streamController = NoController
  /\ stream = [s \in Sends |-> NoStream]
  /\ loads = {}
  /\ written = <<>>
  /\ body = <<>>
  /\ decoder = <<>>
  /\ buffer = <<>>

turnVars == <<pc, req, conversation, history, aiMessages, vendorReq, fullResponse, yielded, chunksLeft,
              clientClosed, frames, ended, outcome, trace, lookup>>

\* ChatService.createConversation
CreateConversation(userId) ==
  /\ nextConv <= MaxConvs
  /\ convs' = [convs EXCEPT ![nextConv] =
                 [exists |-> TRUE, owner |-> userId, createdAt |-> now, updatedAt |-> now]]
  /\ nextConv' = nextConv + 1
  /\ now' = now + 1
  /\ UNCHANGED <<msgs, turnVars, call, adVars, authVars, closedMidStream, uiVars>>

RECURSIVE OrderByUpdatedAtDesc(_)
\* the conversations of the set ids, the one updated last first
OrderByUpdatedAtDesc(ids) ==
  IF ids = {} THEN <<>>
  ELSE LET c == CHOOSE c \in ids : \A d \in ids : convs[d].updatedAt <= convs[c].updatedAt
       IN <<c>> \o OrderByUpdatedAtDesc(ids \ {c})

\* a list query with order: { updatedAt: 'ASC' }
getUserConversationsAsc(userId) ==
  LET desc == OrderByUpdatedAtDesc({c \in ConvIds : convs[c].exists /\ convs[c].owner = userId})
  IN [i \in 1..Len(desc) |-> desc[Len(desc) + 1 - i]]

\* conversationRepo.find({ where: { user: { id: userId } }, order: { updatedAt: 'DESC' } })
getUserConversations(userId) ==
  OrderByUpdatedAtDesc({c \in ConvIds : convs[c].exists /\ convs[c].owner = userId})

\* ChatService.getUserConversations
ListConversations(userId) ==
  /\ call.pc = "idle"
  /\ call' = [op |-> "list", pc |-> "done", conversationId |-> MissingId,
              userId |-> userId, kind |-> "none", error |-> "",
              rows |-> getUserConversations(userId)]
  /\ UNCHANGED <<convs, msgs, now, nextConv, turnVars, adVars, authVars, closedMidStream, uiVars>>

\* positions in the messages table of the rows of conversation id
MessageIdx(id) == {i \in 1..Len(msgs) : msgs[i].conv = id}

\* the orders in which a query without ORDER BY may return the rows idx
AnyOrder(idx) ==
  {f \in [1..Cardinality(idx) -> idx] : \A i, j \in 1..Cardinality(idx) : i # j => f[i] # f[j]}

\* what findOne with relations: ['messages'] may load for the conversation:
\* its message rows, in an order the query does not fix
LoadedMessages(id, userId) ==
  IF findOneConversation(id, userId).found THEN AnyOrder(MessageIdx(id)) ELSE {<<>>}

\* ChatService.getConversation
GetConversation(id, userId, rows) ==
  /\ call.pc = "idle"
  /\ rows \in LoadedMessages(id, userId)
  /\ call' = [op |-> "get", pc |-> "done", conversationId |-> id, userId |-> userId,
              kind |-> LookupKind(id, userId), error |-> LookupError(id, userId),
              rows |-> rows]
  /\ UNCHANGED <<convs, msgs, now, nextConv, turnVars, adVars, authVars, closedMidStream, uiVars>>

\* ChatService.deleteConversation: the findOne and the not-found check
DeleteConversation(id, userId) ==
  /\ call.pc = "idle"
  /\ call' = [op |-> "delete",
              pc |-> IF LookupError(id, userId) = "" THEN "remove" ELSE "done",
              conversationId |-> id, userId |-> userId,
              kind |-> LookupKind(id, userId), error |-> LookupError(id, userId),
              rows |-> <<>>]
  /\ UNCHANGED <<convs, msgs, now, nextConv, turnVars, adVars, authVars, closedMidStream, uiVars>>

\* a remove on a schema without the messages' foreign key: the row goes and
\* the messages stay
DeleteRemoveUnconstrained ==
  /\ call.pc = "remove"
  /\ call' = [call EXCEPT !.pc = "done"]
  /\ convs' = [convs EXCEPT ![call.conversationId] = NoRow]
  /\ UNCHANGED <<msgs, now, nextConv, turnVars, adVars, authVars, closedMidStream, uiVars>>

\* a remove on a schema whose foreign key is ON DELETE CASCADE: the row goes
\* and its messages with it
DeleteRemoveCascades ==
  /\ call.pc = "remove"
  /\ call' = [call EXCEPT !.pc = "done"]
  /\ convs' = [convs EXCEPT ![call.conversationId] = NoRow]
  /\ msgs' = SelectSeq(msgs, LAMBDA m : m.conv # call.conversationId)
  /\ UNCHANGED <<now, nextConv, turnVars, adVars, authVars, closedMidStream, uiVars>>

\* ChatService.deleteConversation: conversationRepo.remove. The messages'
\* foreign key has no onDelete, so a row that is still referenced stays.
DeleteRemove ==
  /\ call.pc = "remove"
  /\ IF MessagesOf(call.conversationId) # <<>>
     THEN /\ call' = [call EXCEPT !.pc = "done", !.error = QueryFailedMessage]
          /\ convs' = convs
     ELSE /\ call' = [call EXCEPT !.pc = "done"]
          /\ convs' = [convs EXCEPT ![call.conversationId] = NoRow]
  /\ UNCHANGED <<msgs, now, nextConv, turnVars, adVars, authVars, closedMidStream, uiVars>>

\* ===================================================================
\* POST /chat/stream: ChatController.streamMessage driving
\* ChatService.streamResponse, one action per await
\* ===================================================================
InFlight(t) == pc[t] \notin {"idle", "rejected", "ended"}

\* a controller that writes the done frame in its finally block
ThrowThenDone(t, kind, message) ==
  /\ frames' = [frames EXCEPT ![t] = Append(Append(@, ErrorFrame(message)), DoneFrame)]
  /\ ended' = [ended EXCEPT ![t] = TRUE]
  /\ outcome' = [outcome EXCEPT ![t] = kind]
  /\ pc' = [pc EXCEPT ![t] = "ended"]

\* catch (error) { pushChunk({ error: ... }) } finally { res.end() }
Throw(t, kind, message) ==
  /\ frames' = [frames EXCEPT ![t] = Append(@, ErrorFrame(message))]
  /\ ended' = [ended EXCEPT ![t] = TRUE]
  /\ outcome' = [outcome EXCEPT ![t] = kind]
  /\ pc' = [pc EXCEPT ![t] = "ended"]

\* the for await loop is left: pushChunk({ done: true }), then res.end()
Finish(t, kind) ==
  /\ frames' = [frames EXCEPT ![t] = Append(@, DoneFrame)]
  /\ ended' = [ended EXCEPT ![t] = TRUE]
  /\ outcome' = [outcome EXCEPT ![t] = kind]
  /\ pc' = [pc EXCEPT ![t] = "ended"]

\* req.on('close', ...)
ClientClose(t) ==
  /\ InFlight(t)
  /\ ~clientClosed[t]
  /\ clientClosed' = [clientClosed EXCEPT ![t] = TRUE]
  /\ closedMidStream' = [closedMidStream EXCEPT ![t] = (pc[t] = "streaming")]
  /\ UNCHANGED <<convs, msgs, now, nextConv, pc, req, conversation, history, aiMessages, vendorReq,
                 fullResponse, yielded, chunksLeft, frames, ended, outcome, trace,
                 lookup, call, adVars, authVars, uiVars>>

\* a streamResponse that saves the user message before it checks the owner
StreamMessageSavesFirst(t, id, message, userId) ==
  /\ pc[t] = "idle"
  /\ \A s \in Turns : s < t => pc[s] # "idle"
  /\ req' = [req EXCEPT ![t] = [conversationId |-> id, message |-> message, userId |-> userId]]
  /\ IF id = NoConversationId
     THEN /\ pc' = [pc EXCEPT ![t] = "rejected"]
          /\ outcome' = [outcome EXCEPT ![t] = "BadRequest"]
          /\ UNCHANGED <<conversation, lookup, frames, ended, msgs, now, trace>>
     ELSE /\ conversation' = [conversation EXCEPT ![t] = findOneConversation(id, userId)]
          /\ lookup' = [lookup EXCEPT ![t] = LookupKind(id, userId)]
          /\ IF RowExists(id)
             THEN /\ msgs' = Append(msgs, NewMessage(id, "user", message, t))
                  /\ now' = now + 1
                  /\ trace' = [trace EXCEPT ![t] = Append(@, "saveUser")]
             ELSE UNCHANGED <<msgs, now, trace>>
          /\ IF LookupError(id, userId) # ""
             THEN Throw(t, "NotFound", LookupError(id, userId))
             ELSE /\ pc' = [pc EXCEPT ![t] = "getHistory"]
                  /\ UNCHANGED <<frames, ended, outcome>>
  /\ UNCHANGED <<convs, nextConv, history, aiMessages, vendorReq, fullResponse, yielded,
                 chunksLeft, clientClosed, call, adVars, authVars, closedMidStream, uiVars>>

\* streamMessage up to the first await of streamResponse: a request without
\* conversationId is rejected before any header is written; otherwise
\* streamResponse verifies that the conversation belongs to the user
StreamMessage(t, id, message, userId) ==
  /\ pc[t] = "idle"
  /\ \A s \in Turns : s < t => pc[s] # "idle"
  /\ req' = [req EXCEPT ![t] = [conversationId |-> id, message |-> message, userId |-> userId]]
  /\ IF id = NoConversationId
     THEN /\ pc' = [pc EXCEPT ![t] = "rejected"]
          /\ outcome' = [outcome EXCEPT ![t] = "BadRequest"]
          /\ UNCHANGED <<conversation, lookup, frames, ended>>
     ELSE /\ conversation' = [conversation EXCEPT ![t] = findOneConversation(id, userId)]
          /\ lookup' = [lookup EXCEPT ![t] = LookupKind(id, userId)]
          /\ IF LookupError(id, userId) # ""
             THEN Throw(t, "NotFound", LookupError(id, userId))
             ELSE /\ pc' = [pc EXCEPT ![t] = "saveUser"]
                  /\ UNCHANGED <<frames, ended, outcome>>
  /\ UNCHANGED <<convs, msgs, now, nextConv, history, aiMessages, vendorReq, fullResponse, yielded,
                 chunksLeft, clientClosed, trace, call, adVars, authVars, closedMidStream, uiVars>>

\* streamResponse: await this.saveMessage(conversationId, 'user', userMessage)
StreamSaveUser(t) ==
  /\ pc[t] = "saveUser"
  /\ IF RowExists(req[t].conversationId)
     THEN /\ msgs' = Append(msgs, NewMessage(req[t].conversationId, "user", req[t].message, t))
          /\ now' = now + 1
          /\ trace' = [trace EXCEPT ![t] = Append(@, "saveUser")]
          /\ pc' = [pc EXCEPT ![t] = "getHistory"]
          /\ UNCHANGED <<frames, ended, outcome>>
     ELSE /\ Throw(t, "QueryFailed", QueryFailedMessage)
          /\ UNCHANGED <<msgs, now, trace>>
  /\ UNCHANGED <<convs, nextConv, req, conversation, history, aiMessages, vendorReq, fullResponse, yielded,
                 chunksLeft, clientClosed, lookup, call, adVars, authVars, closedMidStream, uiVars>>

\* streamResponse: const history = await this.getConversationHistory(conversationId)
StreamGetHistory(t) ==
  /\ pc[t] = "getHistory"
  /\ history' = [history EXCEPT ![t] = getConversationHistory(req[t].conversationId)]
  /\ aiMessages' = [aiMessages EXCEPT ![t] = FormatMessages(history'[t])]
  /\ trace' = [trace EXCEPT ![t] = Append(@, "getHistory")]
  /\ pc' = [pc EXCEPT ![t] = "sendMessageStream"]
  /\ UNCHANGED <<convs, msgs, now, nextConv, req, conversation, vendorReq, fullResponse, yielded,
                 chunksLeft, clientClosed, frames, ended, outcome, lookup, call, adVars, authVars, closedMidStream, uiVars>>

\* streamChat up to and including chat.sendMessageStream(prompt): the vendor
\* either opens a stream or fails
StreamSendMessage(t, ok) ==
  /\ pc[t] = "sendMessageStream"
  /\ trace' = [trace EXCEPT ![t] = Append(@, "streamChat")]
  /\ vendorReq' = [vendorReq EXCEPT ![t] =
                     [sent |-> TRUE, history |-> chatHistory(aiMessages[t]),
                      prompt |-> prompt(aiMessages[t])]]
  /\ IF ok
     THEN /\ chunksLeft' = [chunksLeft EXCEPT ![t] = MaxChunks]
          /\ pc' = [pc EXCEPT ![t] = "streaming"]
          /\ UNCHANGED <<frames, ended, outcome>>
     ELSE /\ Throw(t, "ProviderError", ProviderMessage)
          /\ UNCHANGED chunksLeft
  /\ UNCHANGED <<convs, msgs, now, nextConv, req, conversation, history, aiMessages,
                 fullResponse, yielded, clientClosed, lookup, call, adVars, authVars, closedMidStream, uiVars>>

\* an accumulator that keeps only the latest chunk
StreamChunkOverwrites(t, chunkText) ==
  /\ pc[t] = "streaming"
  /\ chunksLeft[t] > 0
  /\ chunksLeft' = [chunksLeft EXCEPT ![t] = @ - 1]
  /\ IF chunkText = <<>>
     THEN UNCHANGED <<fullResponse, yielded, frames, ended, outcome, pc>>
     ELSE /\ fullResponse' = [fullResponse EXCEPT ![t] = chunkText]
          /\ yielded' = [yielded EXCEPT ![t] = Append(@, chunkText)]
          /\ IF clientClosed[t]
             THEN Finish(t, "break")
             ELSE /\ frames' = [frames EXCEPT ![t] = Append(@, ContentFrame(chunkText))]
                  /\ UNCHANGED <<ended, outcome, pc>>
  /\ UNCHANGED <<convs, msgs, now, nextConv, req, conversation, history, aiMessages,
                 vendorReq, clientClosed, trace, lookup, call, adVars, authVars, closedMidStream, uiVars>>

\* the vendor stream delivers a chunk: an empty text is skipped, any other is
\* yielded by streamChat, accumulated and yielded by streamResponse, and the
\* controller forwards it unless the client has gone
StreamChunk(t, chunkText) ==
  /\ pc[t] = "streaming"
  /\ chunksLeft[t] > 0
  /\ chunksLeft' = [chunksLeft EXCEPT ![t] = @ - 1]
  /\ IF chunkText = <<>>
     THEN UNCHANGED <<fullResponse, yielded, frames, ended, outcome, pc>>
     ELSE /\ fullResponse' = [fullResponse EXCEPT ![t] = @ \o chunkText]
          /\ yielded' = [yielded EXCEPT ![t] = Append(@, chunkText)]
          /\ IF clientClosed[t]
             THEN Finish(t, "break")
             ELSE /\ frames' = [frames EXCEPT ![t] = Append(@, ContentFrame(chunkText))]
                  /\ UNCHANGED <<ended, outcome, pc>>
  /\ UNCHANGED <<convs, msgs, now, nextConv, req, conversation, history, aiMessages, vendorReq, clientClosed,
                 trace, lookup, call, adVars, authVars, closedMidStream, uiVars>>

\* a streamResponse that persists what it has accumulated when the vendor fails
StreamFailSavesPartial(t) ==
  /\ pc[t] = "streaming"
  /\ msgs' = Append(msgs, NewMessage(req[t].conversationId, "assistant", fullResponse[t], t))
  /\ now' = now + 1
  /\ Throw(t, "ProviderError", ProviderMessage)
  /\ UNCHANGED <<convs, nextConv, req, conversation, history, aiMessages, vendorReq,
                 fullResponse, yielded, chunksLeft, clientClosed, trace, lookup, call,
                 adVars, authVars, closedMidStream, uiVars>>

\* the vendor stream fails
StreamFail(t) ==
  /\ pc[t] = "streaming"
  /\ Throw(t, "ProviderError", ProviderMessage)
  /\ UNCHANGED <<convs, msgs, now, nextConv, req, conversation, history, aiMessages, vendorReq, fullResponse,
                 yielded, chunksLeft, clientClosed, trace, lookup, call, adVars, authVars, closedMidStream, uiVars>>

\* a streamResponse that forgets to persist the assistant message
StreamEndSkipsSave(t) ==
  /\ pc[t] = "streaming"
  /\ pc' = [pc EXCEPT ![t] = "saveConversation"]
  /\ trace' = [trace EXCEPT ![t] = Append(@, "streamEnd")]
  /\ UNCHANGED <<convs, msgs, now, nextConv, req, conversation, history, aiMessages,
                 vendorReq, fullResponse, yielded, chunksLeft, clientClosed, frames,
                 ended, outcome, lookup, call, adVars, authVars, closedMidStream, uiVars>>

\* the vendor stream ends
StreamEnd(t) ==
  /\ pc[t] = "streaming"
  /\ pc' = [pc EXCEPT ![t] = "saveAssistant"]
  /\ trace' = [trace EXCEPT ![t] = Append(@, "streamEnd")]
  /\ UNCHANGED <<convs, msgs, now, nextConv, req, conversation, history, aiMessages, vendorReq, fullResponse,
                 yielded, chunksLeft, clientClosed, frames, ended, outcome, lookup, call, adVars, authVars, closedMidStream, uiVars>>

\* a saveMessage that writes the history the turn read back with the new row
StreamSaveAssistantRewritesHistory(t) ==
  /\ pc[t] = "saveAssistant"
  /\ IF RowExists(req[t].conversationId)
     THEN /\ msgs' = SelectSeq(msgs, LAMBDA m : m.conv # req[t].conversationId)
                        \o history[t]
                        \o <<NewMessage(req[t].conversationId, "assistant", fullResponse[t], t)>>
          /\ conversation' = [conversation EXCEPT ![t].updatedAt = now + 1]
          /\ now' = now + 2
          /\ trace' = [trace EXCEPT ![t] = Append(@, "saveAssistant")]
          /\ pc' = [pc EXCEPT ![t] = "saveConversation"]
          /\ UNCHANGED <<frames, ended, outcome>>
     ELSE /\ Throw(t, "QueryFailed", QueryFailedMessage)
          /\ UNCHANGED <<msgs, now, trace, conversation>>
  /\ UNCHANGED <<convs, nextConv, req, history, aiMessages, vendorReq, fullResponse, yielded,
                 chunksLeft, clientClosed, lookup, call, adVars, authVars, closedMidStream, uiVars>>

\* streamResponse: await this.saveMessage(conversationId, 'assistant', fullResponse)
\* and, when it has returned, conversation.updatedAt = new Date() on the
\* entity in memory: the clock is read here, the row is written by the save
\* that follows
StreamSaveAssistant(t) ==
  /\ pc[t] = "saveAssistant"
  /\ IF RowExists(req[t].conversationId)
     THEN /\ msgs' = Append(msgs, NewMessage(req[t].conversationId, "assistant",
                                             fullResponse[t], t))
          /\ conversation' = [conversation EXCEPT ![t].updatedAt = now + 1]
          /\ now' = now + 2
          /\ trace' = [trace EXCEPT ![t] = Append(@, "saveAssistant")]
          /\ pc' = [pc EXCEPT ![t] = "saveConversation"]
          /\ UNCHANGED <<frames, ended, outcome>>
     ELSE /\ Throw(t, "QueryFailed", QueryFailedMessage)
          /\ UNCHANGED <<msgs, now, trace, conversation>>
  /\ UNCHANGED <<convs, nextConv, req, history, aiMessages, vendorReq, fullResponse, yielded,
                 chunksLeft, clientClosed, lookup, call, adVars, authVars, closedMidStream, uiVars>>

\* streamResponse: await this.conversationRepo.save(conversation). save
\* writes the entity's updatedAt to the row when the row exists and inserts
\* the entity otherwise; the entity was loaded without its user relation. The
\* generator is then done and the controller writes the done frame.
StreamSaveConversation(t) ==
  /\ pc[t] = "saveConversation"
  /\ LET id == req[t].conversationId
     IN convs' = [convs EXCEPT ![id] =
                    IF convs[id].exists
                    THEN [@ EXCEPT !.updatedAt = conversation[t].updatedAt]
                    ELSE [exists |-> TRUE, owner |-> "null",
                          createdAt |-> conversation[t].createdAt,
                          updatedAt |-> conversation[t].updatedAt]]
  /\ trace' = [trace EXCEPT ![t] = Append(@, "saveConversation")]
  /\ Finish(t, "done")
  /\ UNCHANGED <<msgs, now, nextConv, req, conversation, history, aiMessages, vendorReq,
                 fullResponse, yielded, chunksLeft, clientClosed, lookup, call, adVars, authVars, closedMidStream, uiVars>>

\* createMessageDto.message of request t
TextsOf(t) == IF \A s \in Turns : t <= s THEN UserTexts ELSE LaterTexts

\* the requests of one stream slot
StreamNext(t) ==
  \/ \E id \in ConvIds \cup {MissingId, NoConversationId}, m \in TextsOf(t), u \in UserIds :
       StreamMessage(t, id, m, u)
  \/ ClientClose(t)
  \/ StreamSaveUser(t)
  \/ StreamGetHistory(t)
  \/ \E ok \in BOOLEAN : StreamSendMessage(t, ok)
  \/ \E x \in ChunkTexts(MaxChunks + 1 - chunksLeft[t]) : StreamChunk(t, x)
  \/ StreamFail(t)
  \/ StreamEnd(t)
  \/ StreamSaveAssistant(t)
  \/ StreamSaveConversation(t)

CrudNext ==
  \/ \E u \in UserIds : CreateConversation(u)
  \/ \E u \in UserIds : ListConversations(u)
  \/ \E id \in ConvIds \cup {MissingId}, u \in UserIds :
       \E rows \in LoadedMessages(id, u) : GetConversation(id, u, rows)
  \/ \E id \in ConvIds \cup {MissingId}, u \in UserIds : DeleteConversation(id, u)
  \/ DeleteRemove

\* One stream request, in any interleaving with the conversation endpoints,
\* on a store that is empty or already holds a completed turn.
FirstTurn == CHOOSE t \in Turns : \A s \in Turns : t <= s

Init ==
  /\ EmptyStore \/ \E u \in UserIds : StoreAfterOneTurn(u)
  /\ NoRequests
  /\ AdIdle
  /\ AuthIdle
  /\ UiIdle

Next == CrudNext \/ StreamNext(FirstTurn)

Spec == Init /\ [][Next]_vars

\* Concurrent stream requests on one conversation, in any interleaving with
\* each other and with createConversation and deleteConversation.
FirstConv == CHOOSE c \in ConvIds : \A d \in ConvIds : c <= d

ConcInit == ChatInit /\ AdIdle /\ AuthIdle /\ UiIdle

ConcNext ==
  \/ \E u \in UserIds : nextConv = FirstConv /\ CreateConversation(u)
  \/ \E u \in UserIds : DeleteConversation(FirstConv, u)
  \/ DeleteRemove
  \/ \E t \in Turns : StreamNext(t)

SpecConc == ConcInit /\ [][ConcNext]_vars

\* ===================================================================
\* The adapter's translation on its own: every input history up to MaxHist
\* ===================================================================
Roles == {"user", "assistant", "system"}
AdTexts == {<<"s">>, <<"u">>}
AdMessages == [role : Roles, content : AdTexts]
AdHistories == UNION {[1..n -> AdMessages] : n \in 0..MaxHist}

AdapterInit ==
  /\ ChatInit
  /\ adIn \in AdHistories
  /\ adOut = NoTranslation
  /\ AuthIdle
  /\ UiIdle

\* streamChat(messages) up to the vendor call
AdapterTranslate ==
  /\ ~adOut.called
  /\ adOut' = [called |-> TRUE, filtered |-> filteredMessages(adIn),
               history |-> chatHistory(adIn), prompt |-> prompt(adIn)]
  /\ UNCHANGED <<chatVars, adIn, authVars, uiVars>>

AdapterNext == AdapterTranslate

SpecAdapter == AdapterInit /\ [][AdapterNext]_vars

\* ===================================================================
\* POST /auth/register, /auth/verify-email, /auth/login
\* ===================================================================
DuplicateMessage == "Email already exists"
UserNotFoundMessage == "User not found"
InvalidCodeMessage == "Invalid code"
CodeExpiredMessage == "Code expired"
ActivatedMessage == "Account activated successfully"
CreatedMessage == "User created successfully"

\* userRepository.exists({ where: { email } })
isEmailExists(email) == \E u \in UIds : users[u].exists /\ users[u].email = email

\* userRepository.findOne({ where: { email } }): the id of the row, or no row
findByEmail(email) ==
  IF isEmailExists(email)
  THEN CHOOSE u \in UIds : users[u].exists /\ users[u].email = email
  ELSE MissingUser

\* userRepository.findOne({ where: { id } })
findOneUser(id) == IF id \in UIds /\ users[id].exists THEN users[id] ELSE NoUser

\* a register that goes on to the insert without looking the email up
RegisterCheckNoLookup(r, email, password) ==
  /\ reg[r].pc = "idle"
  /\ \A q \in RegCalls : q < r => reg[q].pc # "idle"
  /\ reg' = [reg EXCEPT ![r] =
               [pc |-> "save", email |-> email, password |-> password,
                existed |-> isEmailExists(email), status |-> 0, message |-> "",
                id |-> MissingUser]]
  /\ UNCHANGED <<users, nextUser, wall, act, signIn, chatVars, adVars, uiVars>>

\* UsersService.register: the isEmailExists check
RegisterCheck(r, email, password) ==
  /\ reg[r].pc = "idle"
  /\ \A q \in RegCalls : q < r => reg[q].pc # "idle"
  /\ reg' = [reg EXCEPT ![r] =
               IF isEmailExists(email)
               THEN [pc |-> "done", email |-> email, password |-> "",
                     existed |-> TRUE, status |-> 400, message |-> DuplicateMessage,
                     id |-> MissingUser]
               ELSE [pc |-> "save", email |-> email, password |-> password,
                     existed |-> FALSE, status |-> 0, message |-> "", id |-> MissingUser]]
  /\ UNCHANGED <<users, nextUser, wall, act, signIn, chatVars, adVars, uiVars>>

\* UsersService.register: hash, draw the code, create and save the row. The
\* email column is unique, so the insert of a second row with the email fails.
RegisterSave(r, code_id) ==
  /\ reg[r].pc = "save"
  /\ IF isEmailExists(reg[r].email)
     THEN /\ reg' = [reg EXCEPT ![r].pc = "done", ![r].status = 500,
                                ![r].message = QueryFailedMessage, ![r].password = ""]
          /\ UNCHANGED <<users, nextUser>>
     ELSE /\ users' = [users EXCEPT ![nextUser] =
                         [exists |-> TRUE, email |-> reg[r].email,
                          password |-> hashPasswordHelper(reg[r].password),
                          is_active |-> FALSE, code_id |-> code_id,
                          code_expire |-> wall + CodeLifetime]]
          /\ nextUser' = nextUser + 1
          /\ reg' = [reg EXCEPT ![r].pc = "done", ![r].status = 201,
                                ![r].message = CreatedMessage, ![r].id = nextUser,
                                ![r].password = ""]
  /\ UNCHANGED <<wall, act, signIn, chatVars, adVars, uiVars>>

\* an activation that does not look at the expiry
ActivateCheckIgnoresExpiry(user_id, code) ==
  /\ act.pc \in {"idle", "done"}
  /\ LET user == findOneUser(user_id)
         message == IF ~user.exists THEN UserNotFoundMessage
                    ELSE IF user.code_id # code THEN InvalidCodeMessage
                    ELSE ""
     IN act' = [pc |-> IF message = "" THEN "update" ELSE "done",
                user_id |-> user_id, code |-> code,
                wasActive |-> user.is_active,
                status |-> IF message = "" THEN 0 ELSE 400, message |-> message]
  /\ UNCHANGED <<users, nextUser, wall, reg, signIn, chatVars, adVars, uiVars>>

\* UsersService.handleActivateAccount: findOne and the three checks
ActivateCheck(user_id, code) ==
  /\ act.pc \in {"idle", "done"}
  /\ LET user == findOneUser(user_id)
         message == IF ~user.exists THEN UserNotFoundMessage
                    ELSE IF user.code_id # code THEN InvalidCodeMessage
                    ELSE IF user.code_expire < wall THEN CodeExpiredMessage
                    ELSE ""
     IN act' = [pc |-> IF message = "" THEN "update" ELSE "done",
                user_id |-> user_id, code |-> code,
                wasActive |-> user.is_active,
                status |-> IF message = "" THEN 0 ELSE 400, message |-> message]
  /\ UNCHANGED <<users, nextUser, wall, reg, signIn, chatVars, adVars, uiVars>>

\* an activation that consumes the code
ActivateUpdateConsumesCode ==
  /\ act.pc = "update"
  /\ users' = [users EXCEPT ![act.user_id].is_active = TRUE,
                            ![act.user_id].code_id = ""]
  /\ act' = [act EXCEPT !.pc = "done", !.status = 200, !.message = ActivatedMessage]
  /\ UNCHANGED <<nextUser, wall, reg, signIn, chatVars, adVars, uiVars>>

\* UsersService.handleActivateAccount: update(user_id, { is_active: true })
ActivateUpdate ==
  /\ act.pc = "update"
  /\ users' = [users EXCEPT ![act.user_id].is_active = TRUE]
  /\ act' = [act EXCEPT !.pc = "done", !.status = 200, !.message = ActivatedMessage]
  /\ UNCHANGED <<nextUser, wall, reg, signIn, chatVars, adVars, uiVars>>

\* AuthService.validateUser: the id of the user, or null
validateUser(username, pass) ==
  LET id == findByEmail(username)
  IN IF id = MissingUser THEN MissingUser
     ELSE IF ~comparePasswordHelper(pass, users[id].password) THEN MissingUser
     ELSE id

\* a strategy that looks at the activation state before the password
validateChecksActiveFirst(username, password) ==
  LET known == findByEmail(username)
      id == validateUser(username, password)
  IN IF known # MissingUser /\ ~users[known].is_active
     THEN [status |-> 400, code |-> "ACCOUNT_NOT_ACTIVE", user |-> MissingUser]
     ELSE IF id = MissingUser
     THEN [status |-> 401, code |-> "INVALID_CREDENTIALS", user |-> MissingUser]
     ELSE [status |-> 201, code |-> "", user |-> id]

\* a strategy that does not look at the activation state
validateSkipsActive(username, password) ==
  LET id == validateUser(username, password)
  IN IF id = MissingUser
     THEN [status |-> 401, code |-> "INVALID_CREDENTIALS", user |-> MissingUser]
     ELSE [status |-> 201, code |-> "", user |-> id]

\* LocalStrategy.validate
validate(username, password) ==
  LET id == validateUser(username, password)
  IN IF id = MissingUser
     THEN [status |-> 401, code |-> "INVALID_CREDENTIALS", user |-> MissingUser]
     ELSE IF ~users[id].is_active
     THEN [status |-> 400, code |-> "ACCOUNT_NOT_ACTIVE", user |-> MissingUser]
     ELSE [status |-> 201, code |-> "", user |-> id]

\* AuthService.login: jwtService.sign({ username: user.email, sub: user.id })
login(id) == [sub |-> id, username |-> users[id].email]

\* POST /auth/login: LocalAuthGuard runs LocalStrategy.validate, then
\* AuthController.signIn signs the token; the users table is read once
Login(email, password) ==
  /\ LET res == validate(email, password)
         id == findByEmail(email)
     IN signIn' = [called |-> TRUE, email |-> email, password |-> password,
                   known |-> id # MissingUser,
                   matches |-> id # MissingUser
                                 /\ users[id].password = hashPasswordHelper(password),
                   active |-> id # MissingUser /\ users[id].is_active,
                   status |-> res.status, code |-> res.code,
                   access_token |-> IF res.user = MissingUser THEN NoToken
                                    ELSE login(res.user),
                   user |-> res.user]
  /\ UNCHANGED <<users, nextUser, wall, reg, act, chatVars, adVars, uiVars>>

\* a day passes
Tick ==
  /\ wall < MaxTime
  /\ wall' = wall + 1
  /\ UNCHANGED <<users, nextUser, reg, act, signIn, chatVars, adVars, uiVars>>

AuthInit == ChatInit /\ AdIdle /\ AuthIdle /\ UiIdle

AuthNext ==
  \/ \E r \in RegCalls, e \in Emails, p \in Passwords : RegisterCheck(r, e, p)
  \/ \E r \in RegCalls, c \in Codes : RegisterSave(r, c)
  \/ \E id \in UIds \cup {MissingUser}, c \in Codes : ActivateCheck(id, c)
  \/ ActivateUpdate
  \/ \E e \in Emails, p \in Passwords : Login(e, p)
  \/ Tick

SpecAuth == AuthInit /\ [][AuthNext]_vars

\* ===================================================================
\* The chat page: handlers and the steps of streamAssistantResponse, one
\* action per event handler and per await
\* ===================================================================
pageVars == <<selectedConversationId, chatMessages, pendingAssistantMessage, isStreaming,
              isLoadingMessages, streamController, stream, loads>>
readerVars == <<written, body, decoder, buffer>>

\* streamController.current?.abort(): the signal of the current controller is
\* aborted; it is observed only by a fetch or a read that is still pending
Abort(str) ==
  [r \in Sends |->
     IF r = streamController /\ str[r].pc \in {"fetch", "reading"}
     THEN [str[r] EXCEPT !.aborted = TRUE]
     ELSE str[r]]

\* the call slot the next handleSendMessage uses
FreeSend(s) == stream[s].pc = "idle" /\ \A r \in Sends : r < s => stream[r].pc # "idle"

\* setMessages(response?.data?.messages ?? []): the persisted messages of the
\* conversation, every conversation of the page holding one completed turn
LoadedList(conversationId) ==
  <<PersistedMessage(conversationId), PersistedMessage(conversationId)>>

\* the calls whose stream was cut and whose conversation a GET has now reloaded
MarkReloaded(conversationId) ==
  [s \in Sends |->
     IF stream[s].conversationId = conversationId
        /\ (stream[s].aborted \/ stream[s].pc = "failed")
     THEN [stream[s] EXCEPT !.reloaded = TRUE]
     ELSE stream[s]]

\* handleSelectConversation, and the effect on selectedConversationId that
\* React runs when the value changed: fetchConversationById up to its await
handleSelectConversation(conversationId) ==
  /\ selectedConversationId' = conversationId
  /\ pendingAssistantMessage' = <<>>
  /\ IF conversationId # selectedConversationId
     THEN /\ isLoadingMessages' = TRUE
          /\ loads' = loads \cup {[conversationId |-> conversationId, withLoader |-> TRUE]}
     ELSE UNCHANGED <<isLoadingMessages, loads>>
  /\ UNCHANGED <<chatMessages, isStreaming, streamController, stream, readerVars,
                 chatVars, adVars, authVars>>

\* fetchConversationById after its await: the GET of an effect or of
\* handleStopStreaming returns or fails
FetchConversationByIdReturns(load, ok) ==
  /\ load \in loads
  /\ loads' = loads \ {load}
  /\ IF ok
     THEN /\ chatMessages' = LoadedList(load.conversationId)
          /\ stream' = MarkReloaded(load.conversationId)
     ELSE UNCHANGED <<chatMessages, stream>>
  /\ isLoadingMessages' = IF load.withLoader THEN FALSE ELSE isLoadingMessages
  /\ UNCHANGED <<selectedConversationId, pendingAssistantMessage, isStreaming,
                 streamController, readerVars, chatVars, adVars, authVars>>

\* handleSendMessage with a conversation selected, up to the await of fetch in
\* streamAssistantResponse
handleSendMessage(s) ==
  /\ FreeSend(s)
  /\ ~isStreaming
  /\ selectedConversationId # NoSelection
  /\ pendingAssistantMessage' = <<>>
  /\ chatMessages' = Append(chatMessages, tempMessage(selectedConversationId))
  /\ isStreaming' = TRUE
  /\ streamController' = s
  /\ stream' = [Abort(stream) EXCEPT
                  ![s] = [NoStream EXCEPT !.pc = "fetch",
                                          !.conversationId = selectedConversationId]]
  /\ UNCHANGED <<selectedConversationId, isLoadingMessages, loads, readerVars,
                 chatVars, adVars, authVars>>

\* the finally of handleSendMessage
SendFinally(s, how) ==
  /\ isStreaming' = FALSE
  /\ stream' = [stream EXCEPT ![s].pc = how]

\* streamAssistantResponse: the response of POST /chat/stream arrives; a
\* response that is not ok throws
StreamResponds(s, ok) ==
  /\ stream[s].pc = "fetch"
  /\ ~stream[s].aborted
  /\ IF ok
     THEN /\ pendingAssistantMessage' = <<>>
          /\ stream' = [stream EXCEPT ![s].pc = "reading"]
          /\ UNCHANGED isStreaming
     ELSE /\ SendFinally(s, "failed")
          /\ UNCHANGED pendingAssistantMessage
  /\ UNCHANGED <<selectedConversationId, chatMessages, isLoadingMessages, streamController,
                 loads, readerVars, chatVars, adVars, authVars>>

\* a reader loop that drops the text it held when a new fragment arrives
StreamContentFrameReplaces(s, text) ==
  /\ stream[s].pc = "reading"
  /\ ~stream[s].aborted
  /\ Len(pendingAssistantMessage) < MaxChunks
  /\ ~stream[s].sawError
  /\ pendingAssistantMessage' = <<[stream |-> s, content |-> text]>>
  /\ UNCHANGED <<selectedConversationId, chatMessages, isStreaming, isLoadingMessages,
                 streamController, stream, loads, readerVars, chatVars, adVars, authVars>>

\* the reader loop meets a content frame:
\* setPendingAssistantMessage((prev) => prev + parsed.content)
StreamContentFrame(s, text) ==
  /\ stream[s].pc = "reading"
  /\ ~stream[s].aborted
  /\ Len(pendingAssistantMessage) < MaxChunks
  /\ ~stream[s].sawError
  /\ pendingAssistantMessage' =
       Append(pendingAssistantMessage, [stream |-> s, content |-> text])
  /\ UNCHANGED <<selectedConversationId, chatMessages, isStreaming, isLoadingMessages,
                 streamController, stream, loads, readerVars, chatVars, adVars, authVars>>

\* the reader loop meets an error frame: parsed.content is undefined
StreamErrorFrame(s) ==
  /\ stream[s].pc = "reading"
  /\ ~stream[s].aborted
  /\ ~stream[s].sawError
  /\ stream' = [stream EXCEPT ![s].sawError = TRUE]
  /\ UNCHANGED <<selectedConversationId, chatMessages, pendingAssistantMessage, isStreaming,
                 isLoadingMessages, streamController, loads, readerVars,
                 chatVars, adVars, authVars>>

\* reader.read() reports done: the loop is left and
\* fetchConversationById(conversationId, false) runs up to its await
StreamReadDone(s) ==
  /\ stream[s].pc = "reading"
  /\ ~stream[s].aborted
  /\ stream' = [stream EXCEPT ![s].pc = "reloadMessages"]
  /\ UNCHANGED <<selectedConversationId, chatMessages, pendingAssistantMessage, isStreaming,
                 isLoadingMessages, streamController, loads, readerVars,
                 chatVars, adVars, authVars>>

\* the GET of the stream's conversation returns or fails (the error is caught
\* in fetchConversationById); fetchConversations() runs up to its await
StreamReloadMessages(s, ok) ==
  /\ stream[s].pc = "reloadMessages"
  /\ IF ok
     THEN /\ chatMessages' = LoadedList(stream[s].conversationId)
          /\ stream' = [MarkReloaded(stream[s].conversationId) EXCEPT
                          ![s].pc = "reloadConversations", ![s].reloaded = TRUE]
     ELSE /\ stream' = [stream EXCEPT ![s].pc = "reloadConversations"]
          /\ UNCHANGED chatMessages
  /\ UNCHANGED <<selectedConversationId, pendingAssistantMessage, isStreaming,
                 isLoadingMessages, streamController, loads, readerVars,
                 chatVars, adVars, authVars>>

\* fetchConversations() returns (selectFirst is false: the selection stays),
\* then setPendingAssistantMessage(""), and handleSendMessage's finally
StreamReloadConversations(s) ==
  /\ stream[s].pc = "reloadConversations"
  /\ pendingAssistantMessage' = <<>>
  /\ SendFinally(s, "done")
  /\ UNCHANGED <<selectedConversationId, chatMessages, isLoadingMessages, streamController,
                 loads, readerVars, chatVars, adVars, authVars>>

\* fetch or reader.read() rejects, because the signal was aborted or the
\* connection failed: catch (toast.error) and finally of handleSendMessage
StreamRejects(s) ==
  /\ stream[s].pc \in {"fetch", "reading"}
  /\ SendFinally(s, "failed")
  /\ UNCHANGED <<selectedConversationId, chatMessages, pendingAssistantMessage,
                 isLoadingMessages, streamController, loads, readerVars,
                 chatVars, adVars, authVars>>

\* handleStopStreaming; the Stop button is rendered while isStreaming
handleStopStreaming ==
  /\ isStreaming
  /\ stream' = Abort(stream)
  /\ isStreaming' = FALSE
  /\ pendingAssistantMessage' = <<>>
  /\ loads' = IF selectedConversationId # NoSelection
              THEN loads \cup {[conversationId |-> selectedConversationId,
                                withLoader |-> FALSE]}
              ELSE loads
  /\ UNCHANGED <<selectedConversationId, chatMessages, isLoadingMessages, streamController,
                 readerVars, chatVars, adVars, authVars>>

\* The page after it mounted: fetchConversations(true) selected the first of
\* two conversations and the effect loaded its messages.
UiInit ==
  /\ ChatInit /\ AdIdle /\ AuthIdle
  /\ selectedConversationId = FirstConv
  /\ chatMessages = LoadedList(FirstConv)
  /\ pendingAssistantMessage = <<>>
  /\ isStreaming = FALSE
  /\ isLoadingMessages = FALSE
  /\ streamController = NoController
  /\ stream = [s \in Sends |-> NoStream]
  /\ loads = {}
  /\ written = <<>>
  /\ body = <<>>
  /\ decoder = <<>>
  /\ buffer = <<>>

UiNext ==
  \/ \E c \in ConvIds : handleSelectConversation(c)
  \/ \E l \in loads, ok \in BOOLEAN : FetchConversationByIdReturns(l, ok)
  \/ \E s \in Sends : handleSendMessage(s)
  \/ \E s \in Sends, ok \in BOOLEAN : StreamResponds(s, ok)
  \/ \E s \in Sends : StreamContentFrame(s, FrameText)
  \/ \E s \in Sends : StreamErrorFrame(s)
  \/ \E s \in Sends : StreamReadDone(s)
  \/ \E s \in Sends, ok \in BOOLEAN : StreamReloadMessages(s, ok)
  \/ \E s \in Sends : StreamReloadConversations(s)
  \/ \E s \in Sends : StreamRejects(s)
  \/ handleStopStreaming

SpecUi == UiInit /\ [][UiNext]_vars

\* ===================================================================
\* The stream on the wire: pushChunk in ChatController.streamMessage and the
\* reader loop of streamAssistantResponse
\* ===================================================================
MaxFrames == 2
\* characters of a fragment: "nl" is a line feed, "U" a character of two bytes
ReaderTexts == {<<"a">>, <<"nl", "nl">>, <<"U", "b">>}
\* the call whose response the reader loop reads
ReaderCall == 1

\* JSON.stringify of a string: a line feed is written as backslash, n
RECURSIVE Stringify(_)
Stringify(text) ==
  IF text = <<>> THEN <<>>
  ELSE (IF Head(text) = "nl" THEN <<"\\", "n">> ELSE <<Head(text)>>) \o Stringify(Tail(text))

\* JSON.parse of the characters of a string
RECURSIVE ParseString(_)
ParseString(chars) ==
  IF chars = <<>> THEN <<>>
  ELSE IF Head(chars) = "\\" /\ Len(chars) >= 2 /\ chars[2] = "n"
  THEN <<"nl">> \o ParseString(SubSeq(chars, 3, Len(chars)))
  ELSE <<Head(chars)>> \o ParseString(Tail(chars))

\* the characters of `data: ${JSON.stringify(payload)}\n\n`
FrameChars(frame) ==
  <<"da", "ta:", " ", "{">>
    \o (IF frame.type = "content" THEN <<"content:">> \o Stringify(frame.text)
        ELSE IF frame.type = "done" THEN <<"done:", "true">>
        ELSE <<"error:", "m">>)
    \o <<"}", "\n", "\n">>

\* res.write of a string: its UTF-8 bytes
RECURSIVE Utf8Bytes(_)
Utf8Bytes(chars) ==
  IF chars = <<>> THEN <<>>
  ELSE (IF Head(chars) = "U" THEN <<"U1", "U2">> ELSE <<Head(chars)>>)
         \o Utf8Bytes(Tail(chars))

\* pushChunk(payload)
pushChunk(frame) == Utf8Bytes(FrameChars(frame))

\* the bytes of the response body after the frames were written
RECURSIVE Wire(_)
Wire(frameSeq) ==
  IF frameSeq = <<>> THEN <<>> ELSE pushChunk(Head(frameSeq)) \o Wire(Tail(frameSeq))

\* decoder.decode(value, { stream: true }): the characters of the complete
\* byte sequences; an incomplete sequence at the end is held back
RECURSIVE Utf8Chars(_)
Utf8Chars(bytes) ==
  IF bytes = <<>> THEN <<>>
  ELSE IF Head(bytes) = "U1"
  THEN IF Len(bytes) = 1 THEN <<>>
       ELSE IF bytes[2] = "U2" THEN <<"U">> \o Utf8Chars(SubSeq(bytes, 3, Len(bytes)))
       ELSE <<"?">> \o Utf8Chars(Tail(bytes))
  ELSE IF Head(bytes) = "U2" THEN <<"?">> \o Utf8Chars(Tail(bytes))
  ELSE <<Head(bytes)>> \o Utf8Chars(Tail(bytes))

Utf8Held(bytes) ==
  IF bytes # <<>> /\ bytes[Len(bytes)] = "U1" THEN <<"U1">> ELSE <<>>

\* String.prototype.split with a separator of sepLen line feeds
RECURSIVE split(_, _)
split(chars, sepLen) ==
  LET at == {i \in 1..(Len(chars) - sepLen + 1) :
               \A k \in 0..(sepLen - 1) : chars[i + k] = "\n"}
  IN IF at = {} THEN <<chars>>
     ELSE LET i == CHOOSE j \in at : \A k \in at : j <= k
          IN <<SubSeq(chars, 1, i - 1)>> \o split(SubSeq(chars, i + sepLen, Len(chars)), sepLen)

\* line.startsWith("data:")
IsDataLine(line) == Len(line) >= 2 /\ line[1] = "da" /\ line[2] = "ta:"

\* dataLine.replace(/^data:\s*/, "")
RECURSIVE SkipSpaces(_)
SkipSpaces(chars) ==
  IF chars # <<>> /\ Head(chars) = " " THEN SkipSpaces(Tail(chars)) ELSE chars

\* JSON.parse(payload)?.content, <<>> when the payload has none or is invalid
ParsedContent(payload) ==
  IF Len(payload) >= 3 /\ payload[1] = "{" /\ payload[Len(payload)] = "}"
     /\ payload[2] = "content:"
  THEN ParseString(SubSeq(payload, 3, Len(payload) - 1))
  ELSE <<>>

\* the body of the for loop over the segments for one segment
SegmentContent(segment) ==
  LET lines == split(segment, 1)
      dataLines == SelectSeq(lines, IsDataLine)
  IN IF dataLines = <<>> THEN <<>>
     ELSE ParsedContent(SkipSpaces(SubSeq(dataLines[1], 3, Len(dataLines[1]))))

\* the fragments the for loop appends for the complete segments
RECURSIVE SegmentFragments(_)
SegmentFragments(segments) ==
  IF segments = <<>> THEN <<>>
  ELSE (IF SegmentContent(Head(segments)) # <<>>
        THEN <<[stream |-> ReaderCall, content |-> SegmentContent(Head(segments))]>>
        ELSE <<>>)
       \o SegmentFragments(Tail(segments))

\* a reader loop that forgets the incomplete segment between two reads
ReaderReadDropsTail(n) ==
  /\ stream[ReaderCall].pc = "reading"
  /\ n \in 1..Len(body)
  /\ LET bytes == decoder \o SubSeq(body, 1, n)
         segments == split(Utf8Chars(bytes), 2)
     IN /\ decoder' = Utf8Held(bytes)
        /\ buffer' = <<>>
        /\ pendingAssistantMessage' =
             pendingAssistantMessage
               \o SegmentFragments(SubSeq(segments, 1, Len(segments) - 1))
  /\ body' = SubSeq(body, n + 1, Len(body))
  /\ UNCHANGED <<selectedConversationId, chatMessages, isStreaming, isLoadingMessages,
                 streamController, stream, loads, written, chatVars, adVars, authVars>>

\* one pass of the reader loop: reader.read() delivers the next n bytes
ReaderRead(n) ==
  /\ stream[ReaderCall].pc = "reading"
  /\ n \in 1..Len(body)
  /\ LET bytes == decoder \o SubSeq(body, 1, n)
         segments == split(buffer \o Utf8Chars(bytes), 2)
     IN /\ decoder' = Utf8Held(bytes)
        /\ buffer' = segments[Len(segments)]
        /\ pendingAssistantMessage' =
             pendingAssistantMessage
               \o SegmentFragments(SubSeq(segments, 1, Len(segments) - 1))
  /\ body' = SubSeq(body, n + 1, Len(body))
  /\ UNCHANGED <<selectedConversationId, chatMessages, isStreaming, isLoadingMessages,
                 streamController, stream, loads, written, chatVars, adVars, authVars>>

\* reader.read() reports done
ReaderDone ==
  /\ stream[ReaderCall].pc = "reading"
  /\ body = <<>>
  /\ stream' = [stream EXCEPT ![ReaderCall].pc = "reloadMessages"]
  /\ UNCHANGED <<selectedConversationId, chatMessages, pendingAssistantMessage, isStreaming,
                 isLoadingMessages, streamController, loads, readerVars,
                 chatVars, adVars, authVars>>

\* what streamMessage writes: content frames, then the done or an error frame
ContentFrames ==
  UNION {[1..n -> {ContentFrame(x) : x \in ReaderTexts}] : n \in 0..MaxFrames}
WrittenFrames ==
  {cs \o <<last>> : cs \in ContentFrames, last \in {DoneFrame, ErrorFrame(ProviderMessage)}}

\* The page when the response of POST /chat/stream has arrived and the reader
\* loop starts, for every frame sequence the server may write.
ReaderInit ==
  /\ ChatInit /\ AdIdle /\ AuthIdle
  /\ selectedConversationId = FirstConv
  /\ chatMessages = Append(LoadedList(FirstConv), tempMessage(FirstConv))
  /\ pendingAssistantMessage = <<>>
  /\ isStreaming = TRUE
  /\ isLoadingMessages = FALSE
  /\ streamController = ReaderCall
  /\ stream = [s \in Sends |->
                 IF s = ReaderCall
                 THEN [NoStream EXCEPT !.pc = "reading", !.conversationId = FirstConv]
                 ELSE NoStream]
  /\ loads = {}
  /\ written \in WrittenFrames
  /\ body = Wire(written)
  /\ buffer = <<>>
  /\ decoder = <<>>

ReaderNext ==
  \/ \E n \in 1..Len(body) : ReaderRead(n)
  \/ ReaderDone

SpecReader == ReaderInit /\ [][ReaderNext]_vars

\* ===================================================================
\* Properties
\* ===================================================================
\* the rows request t inserted, in insertion order
TurnRows(t) == SelectSeq(msgs, LAMBDA m : m.turn = t)

Happened(t, what) == \E i \in 1..Len(trace[t]) : trace[t][i] = what

LastFrame(t) == frames[t][Len(frames[t])]

\* C1: a turn on an owned conversation whose vendor stream ended without
\* error has, once it is over, persisted exactly one user message and exactly
\* one assistant message for the target conversation, the user message first.
C1_SuccessfulTurnPersistsUserThenAssistant ==
  \A t \in Turns :
    (pc[t] = "ended" /\ Happened(t, "streamEnd")) =>
      LET rows == TurnRows(t)
      IN /\ Len(rows) = 2
         /\ rows[1].role = "user" /\ rows[1].content = req[t].message
         /\ rows[2].role = "assistant"
         /\ rows[1].conv = req[t].conversationId
         /\ rows[2].conv = req[t].conversationId
         /\ rows[1].createdAt < rows[2].createdAt

C1_Witness ==
  \E t \in Turns :
    /\ pc[t] = "ended" /\ outcome[t] = "done" /\ lookup[t] = "owned"
    /\ Len(TurnRows(t)) = 2
    /\ Len(MessagesOf(req[t].conversationId)) = 4

\* C2: a turn whose generation failed after the user message was written,
\* before or after some fragments, has persisted exactly one user message and
\* no assistant message, and the caller got the failure.
C2_FailedGenerationKeepsOnlyUserMessage ==
  \A t \in Turns :
    outcome[t] = "ProviderError" =>
      LET rows == TurnRows(t)
      IN /\ Len(rows) = 1
         /\ rows[1].role = "user" /\ rows[1].content = req[t].message
         /\ rows[1].conv = req[t].conversationId
         /\ pc[t] = "ended"
         /\ LastFrame(t) = ErrorFrame(ProviderMessage)

C2_Witness ==
  \E t \in Turns :
    /\ outcome[t] = "ProviderError"
    /\ Len(yielded[t]) = 1
    /\ Len(TurnRows(t)) = 1

\* C3: the fragments a successful turn yielded, concatenated in emission
\* order, are the content of the assistant message it persisted.
C3_FragmentsConcatenateToAssistantContent ==
  \A t \in Turns :
    outcome[t] = "done" =>
      LET rows == SelectSeq(TurnRows(t), LAMBDA m : m.role = "assistant")
      IN Len(rows) = 1 /\ rows[1].content = Concat(yielded[t])

C3_Witness ==
  \E t \in Turns :
    /\ outcome[t] = "done"
    /\ Len(yielded[t]) = 2
    /\ yielded[t][1] # yielded[t][2]

\* C4: fetching, streaming into or deleting a conversation of another user
\* gets the same not-found error as an id that names no conversation.
C4_ForeignLooksLikeMissing ==
  /\ (call.op \in {"get", "delete"} /\ call.kind \in {"foreign", "missing"}) =>
       (call.pc = "done" /\ call.error = NotFoundMessage)
  /\ \A t \in Turns :
       lookup[t] \in {"foreign", "missing"} =>
         /\ outcome[t] = "NotFound"
         /\ frames[t] = <<ErrorFrame(NotFoundMessage)>>

C4_Witness ==
  /\ call.op = "delete" /\ call.kind = "foreign" /\ call.error = NotFoundMessage
  /\ \E t \in Turns : lookup[t] = "foreign" /\ outcome[t] = "NotFound"

\* C5: a stream request for a conversation that does not exist or is not the
\* caller's fails with not found in a step that writes no message and changes
\* no conversation, and the request has neither written nor called the adapter.
C5_NotFoundBeforeAnyPersistence ==
  [][\A t \in Turns :
       (outcome'[t] = "NotFound" /\ outcome[t] # "NotFound") =>
         /\ lookup'[t] \in {"foreign", "missing"}
         /\ msgs' = msgs
         /\ convs' = convs
         /\ trace'[t] = <<>>
         /\ ~vendorReq'[t].sent]_vars

C5_Witness ==
  \E t \in Turns :
    /\ outcome[t] = "NotFound" /\ lookup[t] = "foreign"
    /\ MessagesOf(req[t].conversationId) # <<>>
    /\ TurnRows(t) = <<>>

\* C6: the history read returns all messages of the conversation, oldest
\* first, with the user message the turn has just written; that list is what
\* the adapter is given; the user message is written before the history is
\* read and the history is read before the vendor is called.
C6_HistoryIsWholeConversationOldestFirst ==
  [][\A t \in Turns :
       /\ (pc[t] = "getHistory" /\ pc'[t] # "getHistory") =>
            LET all == MessagesOf(req[t].conversationId)
                h == history'[t]
            IN /\ Len(h) = Len(all)
               /\ {h[i] : i \in 1..Len(h)} = {all[i] : i \in 1..Len(all)}
               /\ \A i, j \in 1..Len(h) : i < j => h[i].createdAt <= h[j].createdAt
               /\ \E i \in 1..Len(h) :
                    h[i].turn = t /\ h[i].role = "user" /\ h[i].content = req[t].message
               /\ aiMessages'[t] =
                    [i \in 1..Len(h) |-> [role |-> h[i].role, content |-> h[i].content]]
               /\ trace[t] = <<"saveUser">>
       /\ (~vendorReq[t].sent /\ vendorReq'[t].sent) =>
            trace[t] = <<"saveUser", "getHistory">>]_vars

C6_Witness ==
  \E t \in Turns :
    /\ vendorReq[t].sent
    /\ Len(aiMessages[t]) = 3
    /\ history[t][3].turn = t

\* C7: with at least one system message and at least one other message, the
\* combined system content occurs exactly once in the vendor-facing sequence,
\* as a prefix of the entry of the first non-system message.
C7_SystemPromptOnceOnFirstOther ==
  LET systems == SelectSeq(adIn, LAMBDA m : m.role = "system")
      others == SelectIdx(adIn, 1, "system")
      combined == Join([i \in 1..Len(systems) |-> systems[i].content], NewLine)
                    \o NewLine \o NewLine
      out == adOut.filtered
  IN (adOut.called /\ systems # <<>> /\ others # <<>>) =>
       /\ \E k \in 1..Len(out) :
            out[k].src = others[1] /\ IsPrefix(combined, out[k].text)
       /\ Cardinality({k \in 1..Len(out) : Occurrences(combined, out[k].text) > 0}) = 1
       /\ \A k \in 1..Len(out) : Occurrences(combined, out[k].text) <= 1

\* C8: translation maps every assistant message to the vendor role model,
\* keeps user as user, and leaves no entry with the role system.
C8_RolesTranslated ==
  adOut.called =>
    /\ \A i \in 1..Len(adIn) :
         adIn[i].role \in {"assistant", "user"} =>
           \E k \in 1..Len(adOut.filtered) :
             /\ adOut.filtered[k].src = i
             /\ adOut.filtered[k].role = IF adIn[i].role = "assistant" THEN "model" ELSE "user"
    /\ \A k \in 1..Len(adOut.filtered) :
         /\ adOut.filtered[k].role # "system"
         /\ adIn[adOut.filtered[k].src].role = "assistant" => adOut.filtered[k].role = "model"
         /\ adIn[adOut.filtered[k].src].role = "user" => adOut.filtered[k].role = "user"

C8_Witness ==
  /\ adOut.called
  /\ {adIn[i].role : i \in 1..Len(adIn)} = Roles

\* C9: translation drops the system messages: the vendor-facing sequence has
\* exactly one entry per non-system input message, in input order, and none
\* that stands for a system message.
C9_SystemMessagesDropped ==
  adOut.called =>
    /\ [k \in 1..Len(adOut.filtered) |-> adOut.filtered[k].src] = SelectIdx(adIn, 1, "system")
    /\ Len(adOut.history) + (IF adOut.filtered = <<>> THEN 0 ELSE 1)
         = Len(SelectIdx(adIn, 1, "system"))

\* C10: the frames of a stream request that carries a conversationId are
\* content frames followed, when the response is ended, by exactly one
\* terminal frame, done or error; the response is ended with the terminal
\* frame; an adapter failure is the error frame after the content frames of
\* the fragments already forwarded.
C10_FramesEndWithOneTerminal ==
  \A t \in Turns :
    req[t].conversationId # NoConversationId =>
      /\ \A i \in 1..Len(frames[t]) :
           IF i < Len(frames[t]) \/ ~ended[t]
           THEN frames[t][i].type = "content"
           ELSE frames[t][i].type \in {"done", "error"}
      /\ ended[t] => frames[t] # <<>>
      /\ ended[t] <=> pc[t] = "ended"
      /\ outcome[t] = "ProviderError" =>
           /\ LastFrame(t) = ErrorFrame(ProviderMessage)
           /\ SubSeq(frames[t], 1, Len(frames[t]) - 1)
                = [i \in 1..Len(yielded[t]) |-> ContentFrame(yielded[t][i])]

C10_Witness ==
  \E t \in Turns :
    /\ ended[t]
    /\ Len(frames[t]) = 3
    /\ LastFrame(t).type = "error"

\* the largest creation timestamp among the rows of conversation id (0: none)
NewestCreatedAt(rows, id) ==
  LET own == {i \in 1..Len(rows) : rows[i].conv = id}
  IN IF own = {} THEN 0
     ELSE CHOOSE c \in {rows[i].createdAt : i \in own} :
            \A i \in own : rows[i].createdAt <= c

\* C11: in the step that completes a turn, also while other turns run on the
\* same conversation, the conversation's updatedAt is at least the createdAt
\* of the newest message of the conversation.
C11_UpdatedAtCoversNewestMessage ==
  [][\A t \in Turns :
       (outcome[t] # "done" /\ outcome'[t] = "done") =>
         convs'[req[t].conversationId].updatedAt
           >= NewestCreatedAt(msgs', req[t].conversationId)]_vars

C13_MessagesBelongToOwnedConversations ==
  /\ \A i \in 1..Len(msgs) :
       /\ RowExists(msgs[i].conv)
       /\ convs[msgs[i].conv].owner \in UserIds
  /\ \A c \in ConvIds : convs[c].exists => convs[c].owner \in UserIds

\* a delete by the owner ran while a turn on the conversation was in flight
\* and had already persisted its user message
C13_Witness ==
  /\ call.op = "delete" /\ call.kind = "owned" /\ call.pc = "done"
  /\ \E t \in Turns :
       /\ InFlight(t)
       /\ req[t].conversationId = call.conversationId
       /\ TurnRows(t) # <<>>

\* C14: a register call for an email that is already registered ends, in the
\* step that looks the email up, with the duplicate-email error (400), and
\* that step creates no user row and changes no existing one.
C14_DuplicateEmailRejected ==
  [][\A r \in RegCalls :
       (reg[r].pc = "idle" /\ reg'[r].pc # "idle" /\ isEmailExists(reg'[r].email)) =>
         /\ reg'[r].pc = "done"
         /\ reg'[r].status = 400
         /\ reg'[r].message = DuplicateMessage
         /\ reg'[r].id = MissingUser
         /\ users' = users
         /\ nextUser' = nextUser]_vars

C14_Witness ==
  \E r, q \in RegCalls :
    /\ reg[q].status = 201 /\ reg[q].email = reg[r].email
    /\ reg[r].existed /\ reg[r].status = 400
    /\ Cardinality({u \in UIds : users[u].exists /\ users[u].email = reg[r].email}) = 1

\* an activation call is at its checks
ActivateChecks == act.pc # "update" /\ act'.pc # "idle" /\ users' = users

\* C15: an activation of an inactive account with the matching code after
\* the stored expiry fails and leaves the account inactive; a call passes the
\* checks only if the user exists, the code matches and the expiry has not
\* passed, and only a call that passed them sets the active flag.
C15_ExpiredCodeDoesNotActivate ==
  [][/\ \A u \in UIds, c \in Codes :
          (/\ ActivateChecks /\ act'.user_id = u /\ act'.code = c
           /\ act' # act
           /\ users[u].exists /\ ~users[u].is_active
           /\ users[u].code_id = c /\ users[u].code_expire < wall) =>
            /\ act'.pc = "done" /\ act'.status = 400
            /\ act'.message = CodeExpiredMessage
            /\ ~users'[u].is_active
     /\ (act.pc # "update" /\ act'.pc = "update") =>
          /\ act'.user_id \in UIds
          /\ users[act'.user_id].exists
          /\ users[act'.user_id].code_id = act'.code
          /\ users[act'.user_id].code_expire >= wall
     /\ \A u \in UIds :
          (~users[u].is_active /\ users'[u].is_active) =>
            (act.pc = "update" /\ act.user_id = u /\ act'.status = 200)]_vars

C15_Witness ==
  /\ act.pc = "done" /\ act.message = CodeExpiredMessage
  /\ act.user_id \in UIds
  /\ ~users[act.user_id].is_active
  /\ users[act.user_id].code_id = act.code
  /\ users[act.user_id].code_expire < wall

\* C16: a successful activation sets the active flag and changes nothing
\* else of the row, code and expiry included; an activation of an account
\* that is already active, with the same code before the expiry, passes the
\* checks again; an active account stays active.
C16_ActivationKeepsCode ==
  [][/\ (act.pc = "update" /\ act'.pc = "done") =>
          /\ act'.status = 200 /\ act'.message = ActivatedMessage
          /\ users' = [users EXCEPT ![act.user_id].is_active = TRUE]
          /\ users'[act.user_id].code_id = act.code
          /\ users'[act.user_id].code_expire = users[act.user_id].code_expire
     /\ \A u \in UIds :
          (/\ ActivateChecks /\ act' # act /\ act'.user_id = u
           /\ users[u].exists /\ users[u].is_active
           /\ users[u].code_id = act'.code /\ users[u].code_expire >= wall) =>
            act'.pc = "update"
     /\ \A u \in UIds : users[u].is_active => users'[u].is_active]_vars

C16_Witness ==
  /\ act.pc = "done" /\ act.status = 200 /\ act.wasActive
  /\ users[act.user_id].is_active
  /\ users[act.user_id].code_id = act.code

\* C17: a login whose password does not match gets the invalid-credentials
\* response (401) and no token, whether the email is unknown or belongs to
\* an account, active or not.
C17_WrongPasswordIsUniform ==
  (signIn.called /\ ~signIn.matches) =>
    /\ signIn.status = 401
    /\ signIn.code = "INVALID_CREDENTIALS"
    /\ signIn.access_token = NoToken
    /\ signIn.user = MissingUser

C17_Witness ==
  /\ signIn.called /\ signIn.known /\ ~signIn.matches /\ ~signIn.active
  /\ signIn.status = 401

\* C18: a login with the right email and password is rejected with the
\* inactive-account error (400) and gets no token while the account is not
\* active, and returns the token and the user once it is; no token is issued
\* for an account that is not active.
C18_TokenOnlyForActiveAccount ==
  signIn.called =>
    /\ (signIn.matches /\ ~signIn.active) =>
         /\ signIn.status = 400
         /\ signIn.code = "ACCOUNT_NOT_ACTIVE"
         /\ signIn.access_token = NoToken
    /\ (signIn.matches /\ signIn.active) =>
         /\ signIn.user \in UIds
         /\ users[signIn.user].email = signIn.email
         /\ signIn.access_token = [sub |-> signIn.user, username |-> signIn.email]
    /\ signIn.access_token # NoToken => (signIn.matches /\ signIn.active)

C18_Witness ==
  /\ signIn.called /\ signIn.matches /\ signIn.active
  /\ signIn.access_token # NoToken
  /\ act.status = 200 /\ act.user_id = signIn.user /\ ~act.wasActive

\* C19: getUserConversations returns exactly the conversations the user owns,
\* each once, the one updated last first; the conversation of a turn that has
\* completed comes before every conversation updated earlier.
C19_ListIsOwnedNewestUpdatedFirst ==
  [][(call.pc = "idle" /\ call'.op = "list") =>
       LET rows == call'.rows
           owned == {c \in ConvIds : convs[c].exists /\ convs[c].owner = call'.userId}
       IN /\ {rows[i] : i \in 1..Len(rows)} = owned
          /\ Len(rows) = Cardinality(owned)
          /\ \A i, j \in 1..Len(rows) :
               i < j => convs[rows[i]].updatedAt >= convs[rows[j]].updatedAt
          /\ \A t \in Turns :
               (outcome[t] = "done" /\ req[t].conversationId \in owned) =>
                 \A i, j \in 1..Len(rows) :
                   (/\ rows[j] = req[t].conversationId
                    /\ convs[rows[i]].updatedAt < convs[rows[j]].updatedAt) => j < i]_vars

\* the list puts the older conversation first, its turn having completed
\* after the other conversation was created
C19_Witness ==
  /\ call.op = "list" /\ Len(call.rows) = 2
  /\ convs[call.rows[1]].createdAt < convs[call.rows[2]].createdAt
  /\ convs[call.rows[1]].updatedAt > convs[call.rows[2]].updatedAt
  /\ \E t \in Turns : outcome[t] = "done" /\ req[t].conversationId = call.rows[1]

\* C20: getConversation on an owned conversation returns all of its
\* messages, each once, ordered by createdAt ascending.
C20_ConversationMessagesOldestFirst ==
  [][(call.pc = "idle" /\ call'.op = "get" /\ call'.kind = "owned") =>
       LET rows == call'.rows
       IN /\ {rows[i] : i \in 1..Len(rows)} = MessageIdx(call'.conversationId)
          /\ Len(rows) = Cardinality(MessageIdx(call'.conversationId))
          /\ \A i, j \in 1..Len(rows) :
               i < j => msgs[rows[i]].createdAt <= msgs[rows[j]].createdAt]_vars


\* the assistant message of request t is in the store
AssistantPersisted(t) == \E i \in 1..Len(msgs) : msgs[i].turn = t /\ msgs[i].role = "assistant"

\* C21: client-disconnect handling is applied consistently: any two turns
\* whose client went away while the vendor stream was open, and whose
\* generation did not fail, end with the same persistence outcome -- the
\* assistant message is persisted for both or for neither.
C21_DisconnectHandledConsistently ==
  \A s, t \in Turns :
    ( /\ closedMidStream[s] /\ closedMidStream[t]
      /\ pc[s] = "ended" /\ pc[t] = "ended"
      /\ outcome[s] \in {"break", "done"} /\ outcome[t] \in {"break", "done"} )
    => (AssistantPersisted(s) <=> AssistantPersisted(t))


\* C22: when two turns on one conversation run concurrently and both
\* generations succeed, then, however their steps interleave, each turn has
\* left exactly its own user message and its own assistant message in that
\* conversation, the user message with the text the client sent and the
\* assistant message with the concatenation of that turn's fragments; the
\* four rows are all there, none twice.
C22_ConcurrentTurnsLoseNothing ==
  \A s, t \in Turns :
    ( /\ s # t
      /\ pc[s] = "ended" /\ outcome[s] = "done"
      /\ pc[t] = "ended" /\ outcome[t] = "done"
      /\ req[s].conversationId = req[t].conversationId )
    => /\ \A x \in {s, t} :
            LET rows == TurnRows(x)
            IN /\ Len(rows) = 2
               /\ rows[1].role = "user" /\ rows[1].content = req[x].message
               /\ rows[2].role = "assistant" /\ rows[2].content = Concat(yielded[x])
               /\ rows[1].conv = req[x].conversationId
               /\ rows[2].conv = req[x].conversationId
       /\ Len(SelectSeq(MessagesOf(req[t].conversationId),
                        LAMBDA m : m.turn \in {s, t} /\ m.role = "user")) = 2
       /\ Len(SelectSeq(MessagesOf(req[t].conversationId),
                        LAMBDA m : m.turn \in {s, t} /\ m.role = "assistant")) = 2

\* both turns are over and their steps were interleaved: the second user
\* message was stored before the first assistant message
C22_Witness ==
  \E s, t \in Turns :
    /\ s # t
    /\ pc[s] = "ended" /\ outcome[s] = "done"
    /\ pc[t] = "ended" /\ outcome[t] = "done"
    /\ req[s].conversationId = req[t].conversationId
    /\ Len(msgs) = 4
    /\ msgs[1].role = "user" /\ msgs[2].role = "user"
    /\ msgs[3].turn # msgs[4].turn
    /\ Concat(yielded[s]) # <<>>


\* the stream of call s was cut: an error frame came, or the fetch or the read
\* was aborted or failed
StreamCut(s) == stream[s].sawError \/ stream[s].pc = "failed"

\* the fragments of call s still held in the pending assistant buffer
PendingOf(s) == SelectSeq(pendingAssistantMessage, LAMBDA f : f.stream = s)

\* C23: the chat page handles an error frame and a stream abort or failure
\* alike: once handleSendMessage is over for a call whose stream was cut, the
\* pending assistant buffer holds no fragment of that call and the messages
\* of its conversation have been reloaded from the backend.
C23_CutStreamDiscardsBufferAndReloads ==
  \A s \in Sends :
    (stream[s].pc \in {"done", "failed"} /\ StreamCut(s)) =>
      /\ PendingOf(s) = <<>>
      /\ stream[s].reloaded


\* C24: whenever a done frame has been written for a turn, the turn's
\* assistant message is in the store and the conversation row has been saved
\* with its new updatedAt; no done frame is written for a turn that persisted
\* no assistant message.
C24_DoneFrameMeansPersisted ==
  \A t \in Turns :
    (\E i \in 1..Len(frames[t]) : frames[t][i] = DoneFrame) =>
      /\ AssistantPersisted(t)
      /\ Happened(t, "saveConversation")


\* the position of request t's own user message in the history it read
OwnIndex(t) ==
  CHOOSE i \in 0..Len(history[t]) :
    IF \E j \in 1..Len(history[t]) : history[t][j].turn = t /\ history[t][j].role = "user"
    THEN i > 0 /\ history[t][i].turn = t /\ history[t][i].role = "user"
    ELSE i = 0

\* C25: for every turn, however it interleaves with other turns on the
\* conversation, the live prompt handed to the vendor is the text of the user
\* message this turn persisted, that message is the last element of the
\* history the turn read, and the vendor history is everything before it.
C25_PromptIsOwnUserMessage ==
  \A t \in Turns :
    vendorReq[t].sent =>
      LET h == history[t]
          own == OwnIndex(t)
      IN /\ own = Len(h)
         /\ own > 0
         /\ vendorReq[t].prompt = req[t].message
         /\ Len(vendorReq[t].history) = own - 1
         /\ \A i \in 1..(own - 1) : vendorReq[t].history[i].text = h[i].content


\* conversation c was created and deleteConversation has removed it
Deleted(c) == c < nextConv /\ ~convs[c].exists

\* C26: once deleteConversation has succeeded for a conversation, no step
\* brings the conversation row back and no step adds a message to it; a turn
\* that was in flight when the conversation was deleted neither re-creates
\* it with its final save nor stores messages for it.
C26_DeletedConversationStaysDeleted ==
  [][\A c \in ConvIds :
       Deleted(c) =>
         /\ ~convs'[c].exists
         /\ Len(SelectSeq(msgs', LAMBDA m : m.conv = c)) <= Len(MessagesOf(c))]_vars

\* a turn found its conversation, the conversation was deleted while the
\* turn was in flight, and the turn is over
C26_Witness ==
  \E t \in Turns :
    /\ pc[t] = "ended" /\ lookup[t] = "owned"
    /\ Deleted(req[t].conversationId)
    /\ call.op = "delete" /\ call.pc = "done" /\ call.error = ""
    /\ call.conversationId = req[t].conversationId


\* C27: when two register calls for one email that was not registered
\* before are both over, then, whether they ran one after the other or with
\* their existence checks and inserts interleaved, exactly one of them
\* succeeded, one user row holds the email, and the other call failed with
\* the duplicate-email error (400).
C27_RacingRegistersOneWinsOtherDuplicate ==
  \A r, q \in RegCalls :
    ( /\ r # q
      /\ reg[r].pc = "done" /\ reg[q].pc = "done"
      /\ reg[r].email = reg[q].email )
    => /\ Cardinality({u \in UIds : users[u].exists /\ users[u].email = reg[r].email}) = 1
       /\ \E w, l \in {r, q} :
            /\ w # l
            /\ reg[w].status = 201
            /\ reg[l].status = 400 /\ reg[l].message = DuplicateMessage


\* the streamAssistantResponse of call s is in progress; a call whose signal
\* was aborted while it waits for fetch or read is only waiting to reject
InProgress(s) ==
  /\ stream[s].pc \in {"fetch", "reading", "reloadMessages", "reloadConversations"}
  /\ ~(stream[s].aborted /\ stream[s].pc \in {"fetch", "reading"})

\* C28: on the chat page isStreaming is true while a streamAssistantResponse
\* started by handleSendMessage is in progress, at most one is in progress at
\* a time, and the step that finishes one call changes neither isStreaming
\* nor the pending fragments of another call that is in progress.
C28_IsStreamingCoversTheStream ==
  [][/\ \A s \in Sends : InProgress(s)' => isStreaming'
     /\ Cardinality({s \in Sends : InProgress(s)'}) <= 1
     /\ \A r, s \in Sends :
          ( /\ r # s
            /\ stream[r].pc \notin {"done", "failed"}
            /\ stream'[r].pc \in {"done", "failed"}
            /\ InProgress(s) )
          => /\ isStreaming' = isStreaming
             /\ PendingOf(s)' = PendingOf(s)]_vars


\* no load of messages is under way
LoadingSettled == loads = {} /\ ~isLoadingMessages

\* C29: on the chat page, once loading has settled, every displayed message
\* and every fragment of the pending assistant text belongs to the selected
\* conversation, also when another conversation was selected while a stream
\* for the previous one was in progress or finished afterwards.
C29_ShownContentBelongsToSelection ==
  LoadingSettled =>
    /\ \A i \in 1..Len(chatMessages) :
         chatMessages[i].conversationId = selectedConversationId
    /\ \A i \in 1..Len(pendingAssistantMessage) :
         stream[pendingAssistantMessage[i].stream].conversationId = selectedConversationId


\* the text in the pending assistant buffer
PendingText ==
  Concat([i \in 1..Len(pendingAssistantMessage) |-> pendingAssistantMessage[i].content])

\* the content fields of the content frames the server wrote, concatenated
WrittenText ==
  LET cs == SelectSeq(written, LAMBDA f : f.type = "content")
  IN Concat([i \in 1..Len(cs) |-> cs[i].text])

\* C30: however the bytes of the response are cut into reads, the text the
\* reader loop has accumulated in the pending assistant buffer is a prefix of
\* the concatenation of the content fields of the content frames the server
\* wrote, and is all of it once every byte has been read.
C30_ReaderIndependentOfChunking ==
  /\ IsPrefix(PendingText, WrittenText)
  /\ body = <<>> => PendingText = WrittenText

\* two content frames were read to the end, and a read ended between the two
\* line feeds that close a frame or inside a character of two bytes
C30_Witness ==
  \/ /\ body = <<>> /\ stream[ReaderCall].pc = "reloadMessages"
     /\ Len(pendingAssistantMessage) = 2
     /\ PendingText = <<"nl", "nl", "U", "b">>
  \/ /\ body # <<>> /\ Len(pendingAssistantMessage) = 1
     /\ buffer # <<>> /\ buffer[Len(buffer)] = "\n"
     /\ decoder = <<>>

====
